---- MODULE Spec2Model ----
(***************************************************************************)
(* The virtio PCI transport of alioth (virtio/pci.rs) and the per-device   *)
(* worker thread (virtio/dev/dev.rs): the common-configuration registers,  *)
(* the wake channel with its mio waker, the worker's event loop and the    *)
(* device object's shutdown.                                               *)
(*                                                                         *)
(* 64-bit values (driver_feature, queue addresses) are records             *)
(* [lo, hi] of two 32-bit halves; a poll token is the record of its bit 63 *)
(* (is_queue), bit 62 (worker_event) and low bits (index).                 *)
(***************************************************************************)
EXTENDS Integers, Sequences, FiniteSets, TLC

\* ------------------------------------------------------------------ bounds
NumQueues == 2
MaxWrites == 4
MaxStarts == 2
MaxKicks == 2
MaxNotify == 1
MaxPciReset == 1
MaxSmpWrites == 2

\* --------------------------------------------------------------- constants
VIRTIO_MSI_NO_VECTOR == 65535

\* DevStatus bits (virtio 1.x device status field)
DRIVER_OK == 4
DevStatusAll == 207

\* VirtioFeature bits, as bit positions inside the high half of the u64
ACCESS_PLATFORM_HI == 2
RING_PACKED_HI == 4

Queues == 0 .. (NumQueues - 1)
VCPUS == {1, 2}

\* VirtioCommonCfg, #[repr(C, align(4))]: every field with its offset and size
\* (the LAYOUT_* pairs); the six address registers carry the queue field and
\* the half they hold
Field(name, offset, size) ==
    [name |-> name, offset |-> offset, size |-> size, field |-> "none", half |-> "none"]
AddrField(field, half, offset) ==
    [name |-> "queue_addr", offset |-> offset, size |-> 4, field |-> field, half |-> half]
Layout ==
    {Field("device_feature_select", 0, 4), Field("device_feature", 4, 4),
     Field("driver_feature_select", 8, 4), Field("driver_feature", 12, 4),
     Field("config_msix_vector", 16, 2), Field("num_queues", 18, 2),
     Field("device_status", 20, 1), Field("config_generation", 21, 1),
     Field("queue_select", 22, 2), Field("queue_size", 24, 2),
     Field("queue_msix_vector", 26, 2), Field("queue_enable", 28, 2),
     Field("queue_notify_off", 30, 2),
     AddrField("desc", "lo", 32), AddrField("desc", "hi", 36),
     AddrField("driver", "lo", 40), AddrField("driver", "hi", 44),
     AddrField("device", "lo", 48), AddrField("device", "hi", 52),
     Field("queue_notify_data", 56, 2), Field("queue_reset", 58, 2)}

\* VirtioPciRegister: common, isr_status: u32, queue_notify: [u32]
OFFSET_ISR_STATUS == 60
OFFSET_QUEUE_NOTIFY == 64

\* an access that matches no field of the layout
NoField == Field("invalid", 0, 0)

\* match (offset, size as usize): the LAYOUT_* pair the access matches
LayoutOfOffset(offset, size) ==
    IF \E l \in Layout : l.offset = offset
    THEN CHOOSE l \in Layout : l.offset = offset
    ELSE NoField
LayoutOf(offset, size) ==
    IF \E l \in Layout : l.offset = offset /\ l.size = size
    THEN CHOOSE l \in Layout : l.offset = offset /\ l.size = size
    ELSE NoField

\* the fields read has an arm for, and the arms that are todo!()
ReadArms == {l.name : l \in Layout}
ReadTodo == {"queue_notify_data", "queue_reset"}

\* the fields write has an arm for, and the arms that are todo!()
WriteArms == {l.name : l \in Layout} \
                {"device_feature", "num_queues", "config_generation",
                 "queue_notify_off", "queue_notify_data"}
WriteTodo == {"queue_reset", "queue_notify"}

\* where the vCPU is when it makes the last access of an arm: the per-queue
\* arms of read and write load queue_sel first, the driver_feature arms load
\* driver_feature_sel first, every other arm is a single access
ArmPc(n) ==
    IF n \in {"queue_size", "queue_msix_vector", "queue_enable", "queue_addr"}
    THEN "q_sel"
    ELSE IF n = "driver_feature" THEN "f_sel" ELSE "idle"

\* ----------------------------------------------------------------- helpers
RECURSIVE BitAnd(_, _)
BitAnd(a, b) ==
    IF a = 0 \/ b = 0 THEN 0
    ELSE (IF a % 2 = 1 /\ b % 2 = 1 THEN 1 ELSE 0) + 2 * BitAnd(a \div 2, b \div 2)

\* a & !b on the bits of a
BitClear(a, b) == a - BitAnd(a, b)

U64(lo, hi) == [lo |-> lo, hi |-> hi]
Zero64 == U64(0, 0)

get_low32(x) == x.lo
get_high32(x) == x.hi
set_low32(x, v) == [x EXCEPT !.lo = v]
set_high32(x, v) == [x EXCEPT !.hi = v]

\* val as u32, on the two 16-bit halves of the low word
AsU32(val) == ((val \div 65536) % 65536) * 65536 + (val % 65536)

\* DevStatus::from_bits_truncate(val as u8)
from_bits_truncate(val) == BitAnd(val % 256, DevStatusAll)

\* DevStatus::contains(DRIVER_OK)
ContainsDriverOk(bits) == BitAnd(bits, DRIVER_OK) = DRIVER_OK

\* (old ^ status).contains(DRIVER_OK)
DriverOkChangedAlways(old, new) == ContainsDriverOk(new)
StatusChanged(old, new) == old # new
DriverOkChanged(old, new) == ContainsDriverOk(old) # ContainsDriverOk(new)

\* feature & !VirtioFeature::ACCESS_PLATFORM.bits()
ClearNothing(f) == f
ClearAccessPlatform(f) == U64(f.lo, BitClear(f.hi, ACCESS_PLATFORM_HI))

\* VirtioFeature::from_bits_retain(feature).contains(RING_PACKED)
ContainsRingPackedNever(f) == FALSE
ContainsRingPacked(f) == BitAnd(f.hi, RING_PACKED_HI) = RING_PACKED_HI

\* ------------------------------------------------------------------ tokens
Token(isq, we, idx) == [is_queue |-> isq, worker_event |-> we, index |-> idx]
WakerToken == Token(TRUE, TRUE, 0)
KickToken(i) == Token(TRUE, FALSE, i)
DevToken == Token(FALSE, FALSE, 0)

\* token.data() == TOKEN_WORKER_EVENT
IsWorkerEvent(t) == t.worker_event /\ t.index = 0

\* token.data() as u16
TokenQueueIndexZero(t) == 0
TokenQueueIndex(t) == t.index % 65536

\* ------------------------------------------------------------------ events
Ev(ty, f, q, id) == [type |-> ty, feature |-> f, q_index |-> q, id |-> id]
StartEv(f, id) == Ev("Start", f, 0, id)
ResetEv == Ev("Reset", Zero64, 0, 0)
ShutdownEv == Ev("Shutdown", Zero64, 0, 0)
NotifyEv(q) == Ev("Notify", Zero64, q, 0)

HasType(s, ty) == \E k \in 1 .. Len(s) : s[k].type = ty

VARIABLES
    reg,            \* Register: driver_feature, selectors, queue_sel, status
    queue_regs,     \* per-queue configuration (Queue)
    msix_vector,    \* VirtioPciMsixVector: config, queues
    chan,           \* wake channel (mpsc), oldest first
    rx_alive,       \* the Receiver half still exists (worker thread not finished)
    ready,          \* edge-triggered readiness pending in the worker's Poll
    poll_set,       \* queue indexes whose kick fd is registered with the Poll
    wpc,            \* worker position
    wev,            \* the Start event returned by wait_start
    queues,         \* DeviceWorker::queues, the active virtqueue set
    batch,          \* events returned by the last poll, not yet handled
    exit_cause,     \* why do_work returned
    dev_active,     \* device: activate succeeded and reset not called since
    dev_fd,         \* device: its own fd is registered with the Poll
    call,           \* the device call made by the step that led here
    vpc,            \* per vCPU: position inside the MMIO access it is making
    vst,            \* per vCPU: locals of the access (old, status, event, q_sel, f_sel)
    ppc,            \* position inside Pci::reset
    prs,            \* stores of reset() done by the Pci::reset under way
    dpc,            \* position inside VirtioDevice::shutdown (drop)
    n_writes,       \* MMIO writes issued so far (SpecMmio's budget)
    n_kicks,        \* kicks fired so far
    n_starts,       \* rising edges of DRIVER_OK so far (numbers the Start events)
    n_notify,       \* Notify events posted so far
    npc,            \* position of the thread posting a Notify
    n_pci,          \* PCI-level resets issued so far
    act_id,         \* number of the Start the last activate call was made for
    kicks,          \* per queue: kicks fired on the fd since it was last reported
    kick_after,     \* per queue: n_starts when the fd was last fired
    reported,       \* per queue: reported by the last Running poll, with what
    hq_count,       \* per queue: handle_queue calls from the kick path in this wake-up
    prog_since,     \* a vector or enable register was written since the last Reset was sent
    wlog,           \* the last MMIO write: what it did
    msix_entries,   \* PciIrqSender::msix_entries, the MSI-X table
    irq_log,        \* the last config_irq / queue_irq call and the MSIs it submitted
    mmio,           \* the register access that returned last, none while one is under way
    offloaded       \* queues whose kick fd the device offloaded at construction

vars == << reg, queue_regs, msix_vector, chan, rx_alive, ready, poll_set, wpc, wev,
           queues, batch, exit_cause, dev_active, dev_fd, call, vpc, vst, ppc, prs, dpc,
           n_writes, n_kicks, n_starts, n_notify, npc, n_pci, act_id, kicks, kick_after, reported,
           hq_count, prog_since, wlog, msix_entries, irq_log, mmio, offloaded >>

regVars == << reg, queue_regs, msix_vector >>
workerVars == << wpc, wev, queues, batch, exit_cause, dev_active, dev_fd,
                 act_id, reported, hq_count >>
hostVars == << vpc, vst, ppc, prs, dpc, n_starts, n_notify, npc, n_pci, wlog >>
sideVars == << msix_entries, irq_log, mmio, offloaded >>

\* ------------------------------------------------------------------- Init
QUEUE_SIZE_MAX == 256
DeviceFeature == U64(5, 1)

\* Queue { size: QUEUE_SIZE_MAX, ..Default::default() }
NewQueue == [size |-> QUEUE_SIZE_MAX, enabled |-> FALSE,
             desc |-> Zero64, driver |-> Zero64, device |-> Zero64]

NoEvent == Ev("None", Zero64, 0, 0)
NoCall == [op |-> "none", index |-> 0, path |-> "none", feature |-> Zero64, after |-> 0]
NoStatusWrite == [old |-> 0, new |-> 0, event |-> NoEvent, rst |-> 0, q_sel |-> 0,
                  f_sel |-> 0]
NoReport == [i \in Queues |-> [hit |-> FALSE, kicks |-> 0, after |-> 0]]
NoCount == [i \in Queues |-> 0]
NoWrite == [rise |-> FALSE, fall |-> FALSE, df |-> Zero64,
            enq |-> << >>, alive |-> TRUE, done |-> TRUE]

\* offload_ioeventfd answers the device may give, as the set of offloaded queues
OffloadSets == {{}, {NumQueues - 1}}

\* VirtioDevice::new, lines 210-220: the kick fd of every queue the device did
\* not offload is registered with the worker's Poll
RegisteredKickFdsAll(off) == Queues
RegisteredKickFds(off) == Queues \ off

\* VirtioPciDevice::new: table_entries = num_queues + 1
TableEntries == NumQueues + 1

MsixEntry(lo, hi, data, masked) ==
    [addr_lo |-> lo, addr_hi |-> hi, data |-> data, masked |-> masked]

\* MsixTableEntry::default(): a vector is masked until the guest unmasks it
DefaultEntry == MsixEntry(0, 0, 0, TRUE)

\* pc: the call has loaded its vector and has not read the entry yet;
\* snap: what the call would submit were the entry read at the load
NoIrq == [op |-> "none", idx |-> 0, vector |-> VIRTIO_MSI_NO_VECTOR, sent |-> << >>,
          pc |-> "idle", snap |-> << >>]
NoAccess == [kind |-> "none", reg |-> "none", field |-> "none", half |-> "none",
             q_sel |-> 0, val |-> 0, ret |-> 0, offset |-> 0, size |-> 0,
             res |-> "none"]

Init ==
    /\ reg = [device_feature |-> DeviceFeature, driver_feature |-> Zero64,
              device_feature_sel |-> 0, driver_feature_sel |-> 0,
              queue_sel |-> 0, status |-> 0]
    /\ queue_regs = [i \in Queues |-> NewQueue]
    /\ msix_vector = [config |-> VIRTIO_MSI_NO_VECTOR,
                      queues |-> [i \in Queues |-> VIRTIO_MSI_NO_VECTOR]]
    /\ chan = << >>
    /\ rx_alive = TRUE
    /\ ready = {}
    /\ \E off \in OffloadSets :
         /\ offloaded = off
         /\ poll_set = RegisteredKickFds(off)
    /\ wpc = "ws_poll"
    /\ wev = NoEvent
    /\ queues = << >>
    /\ batch = {}
    /\ exit_cause = "none"
    /\ dev_active = FALSE
    /\ dev_fd = FALSE
    /\ call = NoCall
    /\ vpc = [v \in VCPUS |-> "idle"]
    /\ vst = [v \in VCPUS |-> NoStatusWrite]
    /\ ppc = "idle"
    /\ prs = 0
    /\ dpc = "idle"
    /\ n_writes = 0
    /\ n_kicks = 0
    /\ n_starts = 0
    /\ n_notify = 0
    /\ npc = "idle"
    /\ n_pci = 0
    /\ act_id = 0
    /\ kicks = [i \in Queues |-> 0]
    /\ kick_after = [i \in Queues |-> 0]
    /\ reported = NoReport
    /\ hq_count = NoCount
    /\ prog_since = FALSE
    /\ wlog = [v \in VCPUS |-> NoWrite]
    /\ msix_entries = [k \in 0 .. (TableEntries - 1) |-> DefaultEntry]
    /\ irq_log = NoIrq
    /\ mmio = NoAccess

\* ------------------------------------------------- transport (pci.rs), guest

\* The vCPU may issue an MMIO access: it is not inside one. The register file
\* is shared (Arc, &self): Pci::reset and the drop of the VirtioDevice run
\* beside the accesses, and the accesses go on after the drop.
CanWrite(v) == vpc[v] = "idle"

\* a write that is a single atomic store: what the log records of it
PlainWrite(v) ==
    /\ wlog' = [wlog EXCEPT ![v] = NoWrite]
    /\ UNCHANGED << chan, rx_alive, ready, poll_set, workerVars, vpc, vst, ppc, prs, dpc,
                    n_starts, n_notify, npc, n_pci, kicks, kick_after >>

\* VirtioPciRegisterMmio::reset is a sequence of 2 * num_queues + 1 atomic
\* stores with no lock around them: the config vector, the vector of every
\* queue in index order, the enabled flag of every queue in index order.

\* q.enabled.store(false), line 180
StoreDefaultQueue(qr, i) == [qr EXCEPT ![i] = NewQueue]
StoreDisabled(qr, i) == [qr EXCEPT ![i].enabled = FALSE]

\* the vector map and the queues after the k-th store of reset()
ResetStore(k, mv, qr) ==
    IF k = 1
    THEN [mv |-> [mv EXCEPT !.config = VIRTIO_MSI_NO_VECTOR], qr |-> qr]
    ELSE IF k <= NumQueues + 1
    THEN [mv |-> [mv EXCEPT !.queues[k - 2] = VIRTIO_MSI_NO_VECTOR], qr |-> qr]
    ELSE [mv |-> mv, qr |-> StoreDisabled(qr, k - NumQueues - 2)]

\* what reset() leaves when no other thread writes beside it
ResetVectors(mv) ==
    [config |-> VIRTIO_MSI_NO_VECTOR,
     queues |-> [i \in DOMAIN mv.queues |-> VIRTIO_MSI_NO_VECTOR]]
ResetEnabled(qr) == [i \in DOMAIN qr |-> [qr[i] EXCEPT !.enabled = FALSE]]

WriteDeviceFeatureSelect(v, val) ==
    /\ CanWrite(v)
    /\ reg' = [reg EXCEPT !.device_feature_sel = val % 256]
    /\ UNCHANGED << queue_regs, msix_vector, prog_since >>
    /\ PlainWrite(v)

WriteDriverFeatureSelect(v, val) ==
    /\ CanWrite(v)
    /\ reg' = [reg EXCEPT !.driver_feature_sel = val % 256]
    /\ UNCHANGED << queue_regs, msix_vector, prog_since >>
    /\ PlainWrite(v)

\* The driver_feature arms of read and write begin with
\* reg.driver_feature_sel.load (lines 208, 326): the half is chosen by the
\* value loaded, and the access to driver_feature that follows is another
\* atomic access, so a write by another vCPU can fall between the two.
LoadDriverFeatureSel(v) ==
    /\ CanWrite(v)
    /\ vpc' = [vpc EXCEPT ![v] = "f_sel"]
    /\ vst' = [vst EXCEPT ![v].f_sel = reg.driver_feature_sel]
    /\ UNCHANGED << regVars, chan, rx_alive, ready, poll_set, workerVars, ppc, prs,
                    dpc, n_starts, n_notify, npc, n_pci, kicks, kick_after,
                    prog_since, wlog >>

\* the access returns after the load or store that followed the load of a
\* select: the locals are gone; w is what the write log of the vCPU holds then
AccessReturns(v, w) ==
    /\ vpc' = [vpc EXCEPT ![v] = "idle"]
    /\ vst' = [vst EXCEPT ![v].q_sel = 0, ![v].f_sel = 0]
    /\ wlog' = [wlog EXCEPT ![v] = w]
    /\ UNCHANGED << chan, rx_alive, ready, poll_set, workerVars, ppc, prs, dpc,
                    n_starts, n_notify, npc, n_pci, kicks, kick_after >>

WriteDriverFeature(v, val) ==
    /\ vpc[v] = "f_sel"
    /\ reg' = [reg EXCEPT !.driver_feature =
                 IF vst[v].f_sel > 0 THEN set_high32(@, AsU32(val))
                 ELSE set_low32(@, AsU32(val))]
    /\ UNCHANGED << queue_regs, msix_vector, prog_since >>
    /\ AccessReturns(v, NoWrite)

WriteConfigMsixVector(v, val) ==
    /\ CanWrite(v)
    /\ msix_vector' = [msix_vector EXCEPT !.config = val % 65536]
    /\ prog_since' = TRUE
    /\ UNCHANGED << reg, queue_regs >>
    /\ PlainWrite(v)

WriteQueueSelect(v, val) ==
    /\ CanWrite(v)
    /\ reg' = [reg EXCEPT !.queue_sel = val % 65536]
    /\ UNCHANGED << queue_regs, msix_vector, prog_since >>
    /\ PlainWrite(v)

\* The read and the write arm of every per-queue register begin with
\* reg.queue_sel.load (lines 225, 233, 241, ...; 364, 371, 381, 387, ...): the
\* select is loaded into the local q_sel, and the load or store that follows
\* is another atomic access, so a write by another vCPU and a store of
\* reset() can fall between the two.
LoadQueueSel(v) ==
    /\ CanWrite(v)
    /\ vpc' = [vpc EXCEPT ![v] = "q_sel"]
    /\ vst' = [vst EXCEPT ![v].q_sel = reg.queue_sel]
    /\ UNCHANGED << regVars, chan, rx_alive, ready, poll_set, workerVars, ppc, prs,
                    dpc, n_starts, n_notify, npc, n_pci, kicks, kick_after,
                    prog_since, wlog >>

WriteQueueSize(v, val) ==
    /\ vpc[v] = "q_sel"
    /\ queue_regs' = IF vst[v].q_sel \in DOMAIN queue_regs
                     THEN [queue_regs EXCEPT ![vst[v].q_sel].size = val % 65536]
                     ELSE queue_regs
    /\ UNCHANGED << reg, msix_vector, prog_since >>
    /\ AccessReturns(v, NoWrite)

WriteQueueMsixVector(v, val) ==
    /\ vpc[v] = "q_sel"
    /\ msix_vector' = IF vst[v].q_sel \in DOMAIN msix_vector.queues
                      THEN [msix_vector EXCEPT !.queues[vst[v].q_sel] = val % 65536]
                      ELSE msix_vector
    /\ prog_since' = (prog_since \/ vst[v].q_sel \in DOMAIN msix_vector.queues)
    /\ UNCHANGED << reg, queue_regs >>
    /\ AccessReturns(v, NoWrite)

WriteQueueEnable(v, val) ==
    /\ vpc[v] = "q_sel"
    /\ queue_regs' = IF vst[v].q_sel \in DOMAIN queue_regs
                     THEN [queue_regs EXCEPT ![vst[v].q_sel].enabled = (val # 0)]
                     ELSE queue_regs
    /\ prog_since' = (prog_since \/ vst[v].q_sel \in DOMAIN queue_regs)
    /\ UNCHANGED << reg, msix_vector >>
    /\ AccessReturns(v, NoWrite)

\* LAYOUT_QUEUE_DESC_LO .. LAYOUT_QUEUE_DEVICE_HI: one half of one address of
\* the selected queue
SetQueueFieldWrapped(qr, q_sel, field, half, val) ==
    [qr EXCEPT ![q_sel % NumQueues][field] =
        IF half = "lo" THEN set_low32(@, AsU32(val)) ELSE set_high32(@, AsU32(val))]
SetQueueField(qr, q_sel, field, half, val) ==
    IF q_sel \in DOMAIN qr
    THEN [qr EXCEPT ![q_sel][field] =
            IF half = "lo" THEN set_low32(@, AsU32(val)) ELSE set_high32(@, AsU32(val))]
    ELSE qr

WriteQueueAddr(v, field, half, val) ==
    /\ vpc[v] = "q_sel"
    /\ queue_regs' = SetQueueField(queue_regs, vst[v].q_sel, field, half, val)
    /\ UNCHANGED << reg, msix_vector, prog_since >>
    /\ AccessReturns(v, NoWrite)

\* LAYOUT_DEVICE_STATUS, lines 341-344: the swap and the test of the DRIVER_OK edge
WriteDeviceStatus(v, val) ==
    /\ CanWrite(v)
    /\ ContainsDriverOk(from_bits_truncate(val)) /\ ~ContainsDriverOk(reg.status)
         => n_starts < MaxStarts
    /\ LET status == from_bits_truncate(val)
           old == reg.status
           edge == DriverOkChanged(old, status)
       IN /\ reg' = [reg EXCEPT !.status = status]
          /\ vpc' = [vpc EXCEPT ![v] = IF edge THEN "event" ELSE "idle"]
          /\ vst' = [vst EXCEPT ![v] = [old |-> old, new |-> status, event |-> NoEvent,
                                        rst |-> 0, q_sel |-> 0, f_sel |-> 0]]
          /\ wlog' = [wlog EXCEPT ![v] =
                        [rise |-> ~ContainsDriverOk(old) /\ ContainsDriverOk(status),
                         fall |-> ContainsDriverOk(old) /\ ~ContainsDriverOk(status),
                         df |-> reg.driver_feature,
                         enq |-> << >>, alive |-> TRUE, done |-> ~edge]]
    /\ UNCHANGED << queue_regs, msix_vector, chan, rx_alive, ready, poll_set,
                    workerVars, ppc, prs, dpc, n_starts, n_notify, npc, n_pci, kicks,
                    kick_after, prog_since >>

\* lines 345-353: build the Start event (one load of driver_feature), or
\* reset the transport for Reset: each step of a falling write is the next
\* store of reset(), and the write goes on to the send after the last one
StatusEvent(v) ==
    /\ vpc[v] = "event"
    /\ IF ContainsDriverOk(vst[v].new)
       THEN /\ vst' = [vst EXCEPT ![v].event = StartEv(reg.driver_feature, n_starts + 1)]
            /\ n_starts' = n_starts + 1
            /\ vpc' = [vpc EXCEPT ![v] = "send"]
            /\ UNCHANGED << queue_regs, msix_vector >>
       ELSE LET k == vst[v].rst + 1
                after == ResetStore(k, msix_vector, queue_regs)
            IN /\ msix_vector' = after.mv
               /\ queue_regs' = after.qr
               /\ IF k < (2 * NumQueues + 1)
                  THEN /\ vst' = [vst EXCEPT ![v].rst = k]
                       /\ UNCHANGED vpc
                  ELSE /\ vst' = [vst EXCEPT ![v].rst = 0, ![v].event = ResetEv]
                       /\ vpc' = [vpc EXCEPT ![v] = "send"]
               /\ UNCHANGED n_starts
    /\ UNCHANGED << reg, chan, rx_alive, ready, poll_set, workerVars, ppc, prs, dpc,
                    n_notify, npc, n_pci, kicks, kick_after, prog_since, wlog >>

\* wake_up_dev, lines 163-166: event_tx.send fails once the Receiver is gone
WakeUpDevSend(v) ==
    /\ vpc[v] = "send"
    /\ IF rx_alive
       THEN /\ chan' = Append(chan, vst[v].event)
            /\ vpc' = [vpc EXCEPT ![v] = "wake"]
            /\ wlog' = [wlog EXCEPT ![v].enq = Append(@, vst[v].event)]
            /\ prog_since' = (prog_since /\ vst[v].event.type # "Reset")
       ELSE /\ vpc' = [vpc EXCEPT ![v] = "idle"]
            /\ wlog' = [wlog EXCEPT ![v].alive = FALSE, ![v].done = TRUE]
            /\ UNCHANGED << chan, prog_since >>
    /\ UNCHANGED << regVars, rx_alive, ready, poll_set, workerVars, vst, ppc, prs, dpc,
                    n_starts, n_notify, npc, n_pci, kicks, kick_after >>

\* wake_up_dev, lines 167-169: waker.wake()
WakeUpDevWake(v) ==
    /\ vpc[v] = "wake"
    /\ ready' = ready \cup {WakerToken}
    /\ vpc' = [vpc EXCEPT ![v] = "idle"]
    /\ wlog' = [wlog EXCEPT ![v].done = TRUE]
    /\ UNCHANGED << regVars, chan, rx_alive, poll_set, workerVars, vst, ppc, prs, dpc,
                    n_starts, n_notify, npc, n_pci, kicks, kick_after, prog_since >>

\* The guest fires the kick fd (ioeventfd) of queue i; an fd the device
\* offloaded is not in the worker's poll set and does not reach it.
Kick(v, i) ==
    /\ vpc[v] = "idle"
    /\ i \in poll_set
    /\ n_kicks < MaxKicks
    /\ n_kicks' = n_kicks + 1
    /\ ready' = ready \cup {KickToken(i)}
    /\ kicks' = [kicks EXCEPT ![i] = @ + 1]
    /\ kick_after' = [kick_after EXCEPT ![i] = n_starts]
    /\ UNCHANGED << regVars, chan, rx_alive, poll_set, workerVars, hostVars, prog_since >>

\* A holder of event_tx and of the waker posts Notify as the other events
\* are posted: Sender::send first, then Waker::wake, with the worker free to
\* run in between. The send.
PostNotifySend(q) ==
    /\ npc = "idle"
    /\ n_notify < MaxNotify
    /\ rx_alive
    /\ chan' = Append(chan, NotifyEv(q))
    /\ n_notify' = n_notify + 1
    /\ npc' = "wake"
    /\ UNCHANGED << regVars, rx_alive, ready, poll_set, workerVars, vpc, vst, ppc, prs, dpc,
                    n_starts, n_pci, kicks, kick_after, prog_since, wlog >>

\* The wake that follows the send.
PostNotifyWake ==
    /\ npc = "wake"
    /\ ready' = ready \cup {WakerToken}
    /\ npc' = "idle"
    /\ UNCHANGED << regVars, chan, rx_alive, poll_set, workerVars, vpc, vst, ppc, prs, dpc,
                    n_starts, n_notify, n_pci, kicks, kick_after, prog_since, wlog >>

\* Pci::reset, line 743: wake_up_dev(Reset), the send
PciResetSend ==
    /\ ppc = "idle"
    /\ n_pci < MaxPciReset
    /\ n_pci' = n_pci + 1
    /\ IF rx_alive
       THEN chan' = Append(chan, ResetEv) /\ ppc' = "wake" /\ prog_since' = FALSE
       ELSE ppc' = "reset" /\ UNCHANGED << chan, prog_since >>
    /\ UNCHANGED prs
    /\ UNCHANGED << regVars, rx_alive, ready, poll_set, workerVars, vpc, vst, dpc,
                    n_starts, n_notify, npc, kicks, kick_after, wlog >>

\* Pci::reset, line 743: wake_up_dev(Reset), the wake
PciResetWake ==
    /\ ppc = "wake"
    /\ ready' = ready \cup {WakerToken}
    /\ ppc' = "reset"
    /\ UNCHANGED prs
    /\ UNCHANGED << regVars, chan, rx_alive, poll_set, workerVars, vpc, vst, dpc,
                    n_starts, n_notify, npc, n_pci, kicks, kick_after,
                    prog_since, wlog >>

\* Pci::reset, line 744: registers.reset(), its next store
PciResetRegs ==
    /\ ppc = "reset"
    /\ LET after == ResetStore(prs + 1, msix_vector, queue_regs)
       IN /\ msix_vector' = after.mv
          /\ queue_regs' = after.qr
    /\ IF prs + 1 < (2 * NumQueues + 1)
       THEN prs' = prs + 1 /\ UNCHANGED ppc
       ELSE prs' = 0 /\ ppc' = "status"
    /\ UNCHANGED << reg, chan, rx_alive, ready, poll_set, workerVars, vpc, vst, dpc,
                    n_starts, n_notify, npc, n_pci, kicks, kick_after,
                    prog_since, wlog >>

\* Pci::reset, line 745: status.store(0)
PciResetStatus ==
    /\ ppc = "status"
    /\ reg' = [reg EXCEPT !.status = 0]
    /\ ppc' = "idle"
    /\ UNCHANGED prs
    /\ UNCHANGED << queue_regs, msix_vector, chan, rx_alive, ready, poll_set,
                    workerVars, vpc, vst, dpc, n_starts, n_notify, npc, n_pci,
                    kicks, kick_after, prog_since, wlog >>

\* VirtioDevice::shutdown (from Drop), lines 166-169: take the handle, send
\* Shutdown; a failed send returns Err, which drop logs ("failed")
ShutdownSendUnchecked ==
    /\ dpc = "idle"
    /\ chan' = Append(chan, ShutdownEv) /\ dpc' = "wake"
    /\ UNCHANGED << regVars, rx_alive, ready, poll_set, workerVars, vpc, vst, ppc, prs,
                    n_starts, n_notify, npc, n_pci, kicks, kick_after,
                    prog_since, wlog >>
ShutdownSend ==
    /\ dpc = "idle"
    /\ IF rx_alive
       THEN chan' = Append(chan, ShutdownEv) /\ dpc' = "wake"
       ELSE dpc' = "failed" /\ UNCHANGED chan
    /\ UNCHANGED << regVars, rx_alive, ready, poll_set, workerVars, vpc, vst, ppc, prs,
                    n_starts, n_notify, npc, n_pci, kicks, kick_after,
                    prog_since, wlog >>

\* line 170: waker.wake()
ShutdownWake ==
    /\ dpc = "wake"
    /\ ready' = ready \cup {WakerToken}
    /\ dpc' = "join"
    /\ UNCHANGED << regVars, chan, rx_alive, poll_set, workerVars, vpc, vst, ppc, prs,
                    n_starts, n_notify, npc, n_pci, kicks, kick_after,
                    prog_since, wlog >>

\* lines 171-174: handle.join() returns once the worker thread has finished
ShutdownJoin ==
    /\ dpc = "join"
    /\ wpc = "done"
    /\ dpc' = "done"
    /\ UNCHANGED << regVars, chan, rx_alive, ready, poll_set, workerVars, vpc, vst,
                    ppc, prs, n_starts, n_notify, npc, n_pci, kicks, kick_after,
                    prog_since, wlog >>

\* lines 166-168: a further shutdown call finds worker_handle taken, returns Ok
ShutdownAgain ==
    /\ dpc \in {"done", "failed"}
    /\ UNCHANGED << regVars, chan, rx_alive, ready, poll_set, workerVars, hostVars,
                    kicks, kick_after, prog_since >>

\* ------------------------------------------------------ worker (dev.rs)
DevResults == {"Ok", "Err"}

WaitStart == {"ws_poll", "ws_recv"}
Running == {"drain0", "poll", "dispatch", "drain"}

CallOf(op, idx, path, f, after) ==
    [op |-> op, index |-> idx, path |-> path, feature |-> f, after |-> after]

\* The worker thread returns from do_work (or unwinds): the DeviceWorker is
\* dropped, and with it the Receiver, its queued events and the Poll.
Terminate(cause) ==
    /\ wpc' = "done"
    /\ exit_cause' = cause
    /\ rx_alive' = FALSE
    /\ chan' = << >>
    /\ ready' = {}
    /\ batch' = {}

\* wait_start, lines 318-320: poll with Events::with_capacity(1)
WaitStartPoll ==
    /\ wpc = "ws_poll"
    /\ \E t \in ready :
         /\ ready' = ready \ {t}
         /\ kicks' = [i \in Queues |-> IF t = KickToken(i) THEN 0 ELSE kicks[i]]
         /\ kick_after' = [i \in Queues |-> IF t = KickToken(i) THEN 0 ELSE kick_after[i]]
    /\ wpc' = "ws_recv"
    /\ call' = NoCall
    /\ UNCHANGED << regVars, chan, rx_alive, poll_set, wev, queues, batch, exit_cause,
                    dev_active, dev_fd, act_id, reported, hq_count, hostVars,
                    prog_since >>

\* wait_start, lines 317-319: poll returns Err (epoll_wait interrupted by a
\* signal); `?` leaves wait_start, loop_until_reset and do_work
WaitStartPollErr ==
    /\ wpc = "ws_poll"
    /\ Terminate("error")
    /\ call' = NoCall
    /\ UNCHANGED << regVars, poll_set, wev, queues, dev_active, dev_fd, act_id,
                    reported, hq_count, hostVars, kicks, kick_after, prog_since >>

\* wait_start, lines 321-333: one try_recv of the drain
WaitStartRecv ==
    /\ wpc = "ws_recv"
    /\ call' = NoCall
    /\ IF chan = << >>
       THEN /\ wpc' = "ws_poll"
            /\ UNCHANGED << chan, rx_alive, ready, batch, exit_cause, wev >>
       ELSE LET e == Head(chan) IN
            IF e.type = "Notify"
            THEN /\ chan' = Tail(chan)
                 /\ UNCHANGED << wpc, rx_alive, ready, batch, exit_cause, wev >>
            ELSE IF e.type = "Start"
            THEN /\ chan' = Tail(chan)
                 /\ wev' = e
                 /\ wpc' = "activate"
                 /\ UNCHANGED << rx_alive, ready, batch, exit_cause >>
            \* loop_until_reset, lines 356-362: anything but Start ends do_work
            ELSE /\ Terminate(e.type)
                 /\ UNCHANGED wev
    /\ UNCHANGED << regVars, poll_set, queues, dev_active, dev_fd, act_id, reported,
                    hq_count, hostVars, kicks, kick_after, prog_since >>

\* SplitQueue::new for every queue register
NewSplitQueues(f) == [k \in 1 .. NumQueues |-> [reg |-> k - 1, feature |-> f]]

\* loop_until_reset, lines 363-378: dev.activate, then the queue set
Activate ==
    /\ wpc = "activate"
    /\ \E r \in DevResults :
         /\ call' = CallOf("activate", 0, "none", ClearAccessPlatform(wev.feature), 0)
         /\ IF r = "Err"
            THEN /\ Terminate("error")
                 /\ UNCHANGED << queues, dev_active, dev_fd, act_id >>
            ELSE /\ dev_active' = TRUE
                 /\ dev_fd' = TRUE
                 /\ act_id' = wev.id
                 /\ IF ContainsRingPacked(wev.feature)
                    THEN Terminate("panic") /\ UNCHANGED queues
                    ELSE /\ queues' = NewSplitQueues(wev.feature)
                         /\ wpc' = "drain0"
                         /\ UNCHANGED << chan, rx_alive, ready, batch, exit_cause >>
    /\ UNCHANGED << regVars, poll_set, wev, reported, hq_count, hostVars, kicks,
                    kick_after, prog_since >>

\* handle_wake_events, lines 299-312: one iteration of the while-let loop, as
\* the set of its outcomes: what it returns ("Loop": it goes on), the channel
\* afterwards, and the device call it made
HandleWakeEventsRestart ==
    IF chan = << >>
    THEN {[ret |-> "Continue", chan |-> chan, call |-> NoCall]}
    ELSE LET e == Head(chan) IN
         IF e.type = "Notify"
         THEN {[ret |-> IF r = "Ok" THEN "Loop" ELSE "Err", chan |-> Tail(chan),
                call |-> CallOf("handle_queue", e.q_index, "notify", Zero64, 0)]
               : r \in DevResults}
         ELSE {[ret |-> IF e.type = "Start" THEN "Reset" ELSE e.type,
                chan |-> Tail(chan), call |-> NoCall]}
HandleWakeEvents ==
    IF chan = << >>
    THEN {[ret |-> "Continue", chan |-> chan, call |-> NoCall]}
    ELSE LET e == Head(chan) IN
         IF e.type = "Notify"
         THEN {[ret |-> IF r = "Ok" THEN "Loop" ELSE "Err", chan |-> Tail(chan),
                call |-> CallOf("handle_queue", e.q_index, "notify", Zero64, 0)]
               : r \in DevResults}
         ELSE IF e.type = "Start"
         THEN {[ret |-> "Loop", chan |-> Tail(chan), call |-> NoCall]}
         ELSE {[ret |-> e.type, chan |-> Tail(chan), call |-> NoCall]}

\* loop_until_reset, line 385: handle_wake_events(..)? with the DevAction dropped
DrainAfterActivate ==
    /\ wpc = "drain0"
    /\ \E o \in HandleWakeEvents :
         /\ call' = o.call
         /\ IF o.ret = "Err"
            THEN Terminate("error")
            ELSE /\ chan' = o.chan
                 /\ wpc' = IF o.ret = "Loop" THEN "drain0" ELSE "poll"
                 /\ UNCHANGED << rx_alive, ready, batch, exit_cause >>
    /\ UNCHANGED << regVars, poll_set, wev, queues, dev_active, dev_fd, act_id,
                    reported, hq_count, hostVars, kicks, kick_after, prog_since >>

\* loop_until_reset, lines 388-390: poll with Events::with_capacity(128)
Poll ==
    /\ wpc = "poll"
    /\ ready # {}
    /\ batch' = ready
    /\ ready' = {}
    /\ reported' = [i \in Queues |->
                      IF KickToken(i) \in ready
                      THEN [hit |-> TRUE, kicks |-> kicks[i], after |-> kick_after[i]]
                      ELSE [hit |-> FALSE, kicks |-> 0, after |-> 0]]
    /\ kicks' = [i \in Queues |-> IF KickToken(i) \in ready THEN 0 ELSE kicks[i]]
    /\ kick_after' = [i \in Queues |-> IF KickToken(i) \in ready THEN 0 ELSE kick_after[i]]
    /\ hq_count' = NoCount
    /\ wpc' = "dispatch"
    /\ call' = NoCall
    /\ UNCHANGED << regVars, chan, rx_alive, poll_set, wev, queues, exit_cause,
                    dev_active, dev_fd, act_id, hostVars, prog_since >>

\* loop_until_reset, lines 387-389: poll returns Err; `?` leaves
\* loop_until_reset and do_work
PollErr ==
    /\ wpc = "poll"
    /\ Terminate("error")
    /\ call' = NoCall
    /\ UNCHANGED << regVars, poll_set, wev, queues, dev_active, dev_fd, act_id,
                    reported, hq_count, hostVars, kicks, kick_after, prog_since >>

\* loop_until_reset, lines 391-396, and handle_event, lines 337-353: the next
\* event of the batch
Dispatch ==
    /\ wpc = "dispatch"
    /\ IF batch = {}
       THEN /\ wpc' = "poll"
            /\ call' = NoCall
            /\ reported' = NoReport
            /\ hq_count' = NoCount
            /\ UNCHANGED << chan, rx_alive, ready, batch, exit_cause >>
       ELSE \E t \in batch :
            IF t.is_queue /\ IsWorkerEvent(t)
            THEN /\ wpc' = "drain"
                 /\ batch' = batch \ {t}
                 /\ call' = NoCall
                 /\ UNCHANGED << chan, rx_alive, ready, exit_cause, hq_count, reported >>
            ELSE \E r \in DevResults :
                 /\ IF t.is_queue
                    THEN /\ call' = CallOf("handle_queue", TokenQueueIndex(t), "kick",
                                           Zero64, reported[t.index].after)
                         /\ hq_count' = [hq_count EXCEPT ![TokenQueueIndex(t)] = @ + 1]
                    ELSE /\ call' = CallOf("handle_event", 0, "fd", Zero64, 0)
                         /\ UNCHANGED hq_count
                 /\ IF r = "Err"
                    THEN Terminate("error")
                    ELSE /\ batch' = batch \ {t}
                         /\ UNCHANGED << wpc, chan, rx_alive, ready, exit_cause >>
                 /\ UNCHANGED reported
    /\ UNCHANGED << regVars, poll_set, wev, queues, dev_active, dev_fd, act_id,
                    hostVars, kicks, kick_after, prog_since >>

\* handle_event, line 341: handle_wake_events for the waker token; its DevAction
\* goes back to loop_until_reset (line 393) and do_work (line 402)
DrainWake ==
    /\ wpc = "drain"
    /\ \E o \in HandleWakeEvents :
         /\ call' = o.call
         /\ IF o.ret = "Err" THEN Terminate("error")
            ELSE IF o.ret = "Shutdown" THEN Terminate("Shutdown")
            ELSE /\ chan' = o.chan
                 /\ wpc' = CASE o.ret = "Loop" -> "drain"
                             [] o.ret = "Continue" -> "dispatch"
                             [] OTHER -> "reset"
                 /\ batch' = IF o.ret = "Reset" THEN {} ELSE batch
                 /\ UNCHANGED << rx_alive, ready, exit_cause >>
         /\ reported' = IF o.ret = "Reset" THEN NoReport ELSE reported
         /\ hq_count' = IF o.ret = "Reset" THEN NoCount ELSE hq_count
    /\ UNCHANGED << regVars, poll_set, wev, queues, dev_active, dev_fd, act_id,
                    hostVars, kicks, kick_after, prog_since >>

\* do_work, lines 405-406: dev.reset(registry), then the next loop_until_reset
DevReset ==
    /\ wpc = "reset"
    /\ call' = CallOf("reset", 0, "none", Zero64, 0)
    /\ dev_active' = FALSE
    /\ dev_fd' = FALSE
    /\ ready' = ready \ {DevToken}
    /\ wpc' = "ws_poll"
    /\ UNCHANGED << regVars, chan, rx_alive, poll_set, wev, queues, batch, exit_cause,
                    act_id, reported, hq_count, hostVars, kicks, kick_after,
                    prog_since >>

\* An fd the device registered in activate becomes readable.
DevEvent ==
    /\ dev_fd
    /\ wpc # "done"
    /\ DevToken \notin ready
    /\ ready' = ready \cup {DevToken}
    /\ UNCHANGED << regVars, chan, rx_alive, poll_set, workerVars, hostVars, kicks,
                    kick_after, prog_since >>

\* ----------------------------------------------------- transport, reads

\* read, LAYOUT_CONFIG_MSIX_VECTOR
ReadConfigMsixVector(mv) == mv.config

\* read, LAYOUT_QUEUE_MSIX_VECTOR
ReadQueueMsixVector(mv, q_sel) ==
    IF q_sel \in DOMAIN mv.queues THEN mv.queues[q_sel] ELSE VIRTIO_MSI_NO_VECTOR

\* read, LAYOUT_QUEUE_ENABLE
ReadQueueEnable(qr, q_sel) ==
    IF q_sel \in DOMAIN qr THEN (IF qr[q_sel].enabled THEN 1 ELSE 0) ELSE 0

\* read, LAYOUT_DEVICE_FEATURE
ReadDeviceFeature(r) ==
    IF r.device_feature_sel > 0 THEN get_high32(r.device_feature)
    ELSE get_low32(r.device_feature)

\* read, LAYOUT_DRIVER_FEATURE
ReadDriverFeatureLowOnly(sel, driver_feature) == get_low32(driver_feature)
ReadDriverFeature(sel, driver_feature) ==
    IF sel > 0 THEN get_high32(driver_feature) ELSE get_low32(driver_feature)

\* read, LAYOUT_QUEUE_SIZE
ReadQueueSize(qr, q_sel) ==
    IF q_sel \in DOMAIN qr THEN qr[q_sel].size ELSE 0

\* read, LAYOUT_QUEUE_DESC_LO .. LAYOUT_QUEUE_DEVICE_HI: of the six arms only
\* queue_desc_lo takes the low half
ReadQueueAddrHigh(qr, q_sel, field, half) ==
    IF q_sel \in DOMAIN qr THEN get_high32(qr[q_sel][field]) ELSE 0
ReadQueueAddr(qr, q_sel, field, half) ==
    IF q_sel \in DOMAIN qr
    THEN IF field = "desc" /\ half = "lo" THEN get_low32(qr[q_sel][field])
         ELSE get_high32(qr[q_sel][field])
    ELSE 0

\* ------------------------------------------------------------ specification
StatusInputs == {0, 15}
VectorInputs == {1}
NotifyInputs == {NumQueues - 1}

\* the part of every device_status write after the swap
StatusWriteSteps(v) ==
    \/ StatusEvent(v)
    \/ WakeUpDevSend(v)
    \/ WakeUpDevWake(v)

GuestStatus(v) == \E val \in StatusInputs : WriteDeviceStatus(v, val)

Host ==
    \/ \E q \in NotifyInputs : PostNotifySend(q)
    \/ PostNotifyWake
    \/ PciResetSend
    \/ PciResetWake
    \/ PciResetRegs
    \/ PciResetStatus

Worker ==
    \/ WaitStartPoll
    \/ WaitStartRecv
    \/ Activate
    \/ DrainAfterActivate
    \/ Poll
    \/ Dispatch
    \/ DrainWake
    \/ DevReset

\* a step of anything but the worker thread makes no device call
NoDeviceCall == call' = NoCall /\ UNCHANGED << n_writes, n_kicks, sideVars >>

GuestStep == (GuestStatus(1) \/ StatusWriteSteps(1)) /\ NoDeviceCall
KickStep == (\E i \in Queues : Kick(1, i)) /\ call' = NoCall /\ UNCHANGED << n_writes, sideVars >>
DropStep ==
    /\ ShutdownSend \/ ShutdownWake \/ ShutdownJoin \/ ShutdownAgain
    /\ NoDeviceCall
DevEventStep == DevEvent /\ NoDeviceCall
HostStep ==
    /\ (\E val \in VectorInputs : WriteConfigMsixVector(1, val)) \/ Host
    /\ NoDeviceCall
WorkerStep == Worker /\ UNCHANGED << n_writes, n_kicks, sideVars >>

\* a signal handled on the worker thread while it is inside one of its polls
PollErrStep ==
    /\ WaitStartPollErr \/ PollErr
    /\ UNCHANGED << n_writes, n_kicks, sideVars >>

\* The life cycle: one vCPU driving device_status and the kick fds, the
\* device's own fd, the device object's drop, and the worker thread.
Next ==
    \/ GuestStep
    \/ KickStep
    \/ DevEventStep
    \/ DropStep
    \/ WorkerStep
    \/ PollErrStep

Spec == Init /\ [][Next]_vars

\* Every thread that exists is scheduled: the worker, the vCPU inside a
\* write, the thread inside a destructor that has started. Nothing makes the
\* owner drop the device, and nothing makes a poll fail.
FairSpec ==
    /\ Spec
    /\ WF_vars(WorkerStep)
    /\ WF_vars(StatusWriteSteps(1) /\ NoDeviceCall)
    /\ WF_vars((ShutdownWake \/ ShutdownJoin) /\ NoDeviceCall)

\* The host side while the device lives: one vCPU driving device_status and
\* the config vector, the PCI-level reset, a Notify poster, and the worker.
NextHost ==
    \/ GuestStep
    \/ HostStep
    \/ WorkerStep
    \/ PollErrStep

SpecHost == Init /\ [][NextHost]_vars

\* ------------------------------------------------- interrupts (pci.rs 63-109)

\* msi_sender.send(addr, data): one submission
Msi(addr, data) == [addr |-> addr, data |-> data]

\* ((entry.addr_hi as u64) << 32) | (entry.addr_lo as u64)
MsiAddrSwapped(entry) == U64(entry.addr_hi, entry.addr_lo)
MsiAddr(entry) == U64(entry.addr_lo, entry.addr_hi)

\* entry.control.masked()
MaskedNever(entry) == FALSE
Masked(entry) == entry.masked

\* PciIrqSender::send: the MSIs it submits
send(entries, vector) ==
    IF vector \notin DOMAIN entries THEN << >>
    ELSE IF Masked(entries[vector]) THEN << >>
    ELSE << Msi(MsiAddr(entries[vector]), entries[vector].data) >>

\* IrqSender::config_irq: the MSIs it submits
config_irq(mv, entries) ==
    IF mv.config # VIRTIO_MSI_NO_VECTOR THEN send(entries, mv.config) ELSE << >>

\* IrqSender::queue_irq: the MSIs it submits
queue_irq(mv, entries, idx) ==
    IF idx \notin DOMAIN mv.queues THEN << >>
    ELSE IF mv.queues[idx] # VIRTIO_MSI_NO_VECTOR THEN send(entries, mv.queues[idx])
    ELSE << >>

\* config_irq, lines 93-94: the load of the config vector; the call ends
\* here if it is NO_VECTOR
ConfigIrq ==
    /\ irq_log.pc = "idle"
    /\ irq_log' = [op |-> "config_irq", idx |-> 0, vector |-> msix_vector.config,
                   sent |-> << >>,
                   pc |-> IF msix_vector.config # VIRTIO_MSI_NO_VECTOR
                          THEN "send" ELSE "idle",
                   snap |-> config_irq(msix_vector, msix_entries)]
    /\ UNCHANGED msix_entries

\* queue_irq, lines 100-105: the lookup of the queue's slot and the load of
\* its vector; the call ends here without a slot or with NO_VECTOR
QueueIrq(idx) ==
    /\ irq_log.pc = "idle"
    /\ LET vector == IF idx \in DOMAIN msix_vector.queues
                     THEN msix_vector.queues[idx] ELSE VIRTIO_MSI_NO_VECTOR
       IN irq_log' = [op |-> "queue_irq", idx |-> idx, vector |-> vector,
                      sent |-> << >>,
                      pc |-> IF vector # VIRTIO_MSI_NO_VECTOR THEN "send" ELSE "idle",
                      snap |-> queue_irq(msix_vector, msix_entries, idx)]
    /\ UNCHANGED msix_entries

\* send, lines 68-85, with the vector loaded before: the entry is looked up
\* and read under its read lock now, after whatever the guest wrote since
IrqSend ==
    /\ irq_log.pc = "send"
    /\ irq_log' = [irq_log EXCEPT !.sent = send(msix_entries, irq_log.vector),
                                  !.pc = "idle"]
    /\ UNCHANGED msix_entries

\* The guest programs one entry of the MSI-X table (the table's MMIO takes the
\* entry's write lock).
WriteMsixEntry(k, e) ==
    /\ k \in DOMAIN msix_entries
    /\ msix_entries' = [msix_entries EXCEPT ![k] = e]
    /\ UNCHANGED irq_log

IrqEntryInputs == {MsixEntry(4096, 0, 66, FALSE), MsixEntry(8192, 1, 67, FALSE),
                   MsixEntry(4096, 0, 66, TRUE)}
IrqVectorInputs == {1, 2, TableEntries}
IrqEntryIndexInputs == {1, 2}

\* everything but the registers, the table and the interrupt log
restVars == << chan, rx_alive, ready, poll_set, workerVars, hostVars, kicks,
               kick_after, prog_since, call, n_writes, n_kicks, mmio, offloaded >>

IrqGuestVector ==
    /\ \/ \E val \in IrqVectorInputs : WriteConfigMsixVector(1, val)
       \/ LoadQueueSel(1)
       \/ \E val \in IrqVectorInputs : WriteQueueMsixVector(1, val)
       \/ \E val \in Queues : WriteQueueSelect(1, val)
    /\ UNCHANGED << call, n_writes, n_kicks, sideVars >>

IrqGuestTable ==
    /\ \E k \in IrqEntryIndexInputs, e \in IrqEntryInputs : WriteMsixEntry(k, e)
    /\ UNCHANGED << regVars, restVars >>

IrqDevice ==
    /\ ConfigIrq \/ \E idx \in 0 .. NumQueues : QueueIrq(idx)
    /\ UNCHANGED << regVars, restVars >>

IrqDeviceSend == IrqSend /\ UNCHANGED << regVars, restVars >>

\* The interrupt path: the guest programming the vectors and the MSI-X table,
\* the device raising config and queue interrupts.
NextIrq ==
    \/ IrqGuestVector
    \/ IrqGuestTable
    \/ IrqDevice
    \/ IrqDeviceSend

SpecIrq == Init /\ [][NextIrq]_vars

\* --------------------------------------------- register reads and writes

RegFeatureInputs == {5, 3}
RegSelectInputs == {0, 1, 2}
RegQueueSelInputs == {0, 1, NumQueues}
RegEnableInputs == {0, 1}
RegSizeInputs == {8}
RegAddrInputs == {4096, 8192}
AddrFields == {"desc", "driver", "device"}
AddrHalves == {"lo", "hi"}

\* the field of the layout a register access by name goes to
FieldOf(name, field, half) ==
    CHOOSE l \in Layout : l.name = name /\ l.field = field /\ l.half = half

\* what the log records of an access by name (q_sel: the select it loaded)
Access(v, kind, name, field, half, val, ret) ==
    [kind |-> kind, reg |-> name, field |-> field, half |-> half,
     q_sel |-> vst[v].q_sel, val |-> val, ret |-> ret,
     offset |-> FieldOf(name, field, half).offset,
     size |-> FieldOf(name, field, half).size, res |-> "Ok"]

\* one write access to a register, and what the access log records of it
\* (of a write to a per-queue register, the select it loaded)
RegWrite(v) ==
    \/ \E val \in RegSelectInputs :
         /\ WriteDeviceFeatureSelect(v, val)
         /\ mmio' = Access(v, "write", "device_feature_select", "none", "none", val, 0)
    \/ \E val \in RegSelectInputs :
         /\ WriteDriverFeatureSelect(v, val)
         /\ mmio' = Access(v, "write", "driver_feature_select", "none", "none", val, 0)
    \/ \E val \in RegFeatureInputs :
         /\ WriteDriverFeature(v, val)
         /\ mmio' = Access(v, "write", "driver_feature", "none", "none", val, 0)
    \/ \E val \in VectorInputs :
         /\ WriteConfigMsixVector(v, val)
         /\ mmio' = Access(v, "write", "config_msix_vector", "none", "none", val, 0)
    \/ \E val \in RegQueueSelInputs :
         /\ WriteQueueSelect(v, val)
         /\ mmio' = Access(v, "write", "queue_select", "none", "none", val, 0)
    \/ \E val \in RegSizeInputs :
         /\ WriteQueueSize(v, val)
         /\ mmio' = Access(v, "write", "queue_size", "none", "none", val, 0)
    \/ \E val \in VectorInputs :
         /\ WriteQueueMsixVector(v, val)
         /\ mmio' = Access(v, "write", "queue_msix_vector", "none", "none", val, 0)
    \/ \E val \in RegEnableInputs :
         /\ WriteQueueEnable(v, val)
         /\ mmio' = Access(v, "write", "queue_enable", "none", "none", val, 0)
    \/ \E f \in AddrFields, h \in AddrHalves, val \in RegAddrInputs :
         /\ WriteQueueAddr(v, f, h, val)
         /\ mmio' = Access(v, "write", "queue_addr", f, h, val, 0)

\* one read access to a register: the value read goes to the access log.
\* device_feature is not atomic and never written: its arm is the one load of
\* device_feature_sel.
RegRead(v) ==
    /\ \/ /\ vpc[v] = ArmPc("device_feature")
          /\ \/ mmio' = Access(v, "read", "device_feature", "none", "none", 0,
                               ReadDeviceFeature(reg))
             \/ mmio' = Access(v, "read", "config_msix_vector", "none", "none", 0,
                               ReadConfigMsixVector(msix_vector))
       \/ /\ vpc[v] = ArmPc("driver_feature")
          /\ mmio' = Access(v, "read", "driver_feature", "none", "none", 0,
                            ReadDriverFeature(vst[v].f_sel, reg.driver_feature))
       \/ /\ vpc[v] = ArmPc("queue_size")
          /\ \/ mmio' = Access(v, "read", "queue_size", "none", "none", 0,
                               ReadQueueSize(queue_regs, vst[v].q_sel))
             \/ mmio' = Access(v, "read", "queue_msix_vector", "none", "none", 0,
                               ReadQueueMsixVector(msix_vector, vst[v].q_sel))
             \/ mmio' = Access(v, "read", "queue_enable", "none", "none", 0,
                               ReadQueueEnable(queue_regs, vst[v].q_sel))
             \/ \E f \in AddrFields, h \in AddrHalves :
                  mmio' = Access(v, "read", "queue_addr", f, h, 0,
                                 ReadQueueAddr(queue_regs, vst[v].q_sel, f, h))
    /\ AccessReturns(v, wlog[v])
    /\ UNCHANGED << regVars, prog_since >>

\* an access given by offset and size: what the log records of it
RawAccess(v, kind, l, offset, size, val, ret, res) ==
    [kind |-> kind, reg |-> l.name, field |-> l.field, half |-> l.half,
     q_sel |-> vst[v].q_sel, val |-> val, ret |-> ret,
     offset |-> offset, size |-> size, res |-> res]

\* the arm of write the access takes: a LAYOUT_* arm, the arm of
\* (OFFSET_QUEUE_NOTIFY, _), or the fallthrough
WriteArm(offset, size) ==
    LET l == LayoutOf(offset, size) IN
    IF l.name \in WriteArms THEN l
    ELSE IF offset = OFFSET_QUEUE_NOTIFY THEN Field("queue_notify", offset, size)
    ELSE NoField

\* the arm of read the access takes
ReadArm(offset, size) ==
    LET l == LayoutOf(offset, size) IN
    IF l.name \in ReadArms THEN l ELSE NoField

\* the vCPU thread unwinds out of the access: todo!()
PanicInAccess(v) ==
    /\ vpc' = [vpc EXCEPT ![v] = "panicked"]
    /\ UNCHANGED << regVars, chan, rx_alive, ready, poll_set, workerVars, vst, ppc, prs,
                    dpc, n_starts, n_notify, npc, n_pci, wlog, kicks, kick_after,
                    prog_since >>

\* VirtioPciRegisterMmio::write(offset, size, val)
WriteAt(v, offset, size, val) ==
    LET l == WriteArm(offset, size)
        n == l.name
    IN /\ vpc[v] = ArmPc(n)
       /\ mmio' = RawAccess(v, "write", l, offset, size, val, 0,
                            IF n \in WriteTodo THEN "panic" ELSE "Ok")
       /\ CASE n = "device_feature_select" -> WriteDeviceFeatureSelect(v, val)
            [] n = "driver_feature_select" -> WriteDriverFeatureSelect(v, val)
            [] n = "driver_feature" -> WriteDriverFeature(v, val)
            [] n = "config_msix_vector" -> WriteConfigMsixVector(v, val)
            [] n = "device_status" -> WriteDeviceStatus(v, val)
            [] n = "queue_select" -> WriteQueueSelect(v, val)
            [] n = "queue_size" -> WriteQueueSize(v, val)
            [] n = "queue_msix_vector" -> WriteQueueMsixVector(v, val)
            [] n = "queue_enable" -> WriteQueueEnable(v, val)
            [] n = "queue_addr" -> WriteQueueAddr(v, l.field, l.half, val)
            [] n \in WriteTodo -> PanicInAccess(v)
            [] OTHER -> /\ UNCHANGED << regVars, prog_since >>
                        /\ PlainWrite(v)

\* the value an arm of read evaluates to, with the select it loaded
ReadValue(v, l) ==
    CASE l.name = "device_feature_select" -> reg.device_feature_sel
      [] l.name = "device_feature" -> ReadDeviceFeature(reg)
      [] l.name = "driver_feature_select" -> reg.driver_feature_sel
      [] l.name = "driver_feature" -> ReadDriverFeature(vst[v].f_sel, reg.driver_feature)
      [] l.name = "config_msix_vector" -> ReadConfigMsixVector(msix_vector)
      [] l.name = "num_queues" -> NumQueues
      [] l.name = "device_status" -> reg.status
      [] l.name = "config_generation" -> 0
      [] l.name = "queue_select" -> reg.queue_sel
      [] l.name = "queue_size" -> ReadQueueSize(queue_regs, vst[v].q_sel)
      [] l.name = "queue_msix_vector" -> ReadQueueMsixVector(msix_vector, vst[v].q_sel)
      [] l.name = "queue_enable" -> ReadQueueEnable(queue_regs, vst[v].q_sel)
      [] l.name = "queue_notify_off" -> reg.queue_sel
      [] l.name = "queue_addr" -> ReadQueueAddr(queue_regs, vst[v].q_sel, l.field, l.half)
      [] OTHER -> 0

\* VirtioPciRegisterMmio::read(offset, size)
ReadAt(v, offset, size) ==
    LET l == ReadArm(offset, size) IN
    /\ vpc[v] = ArmPc(l.name)
    /\ IF l.name \in ReadTodo
       THEN /\ mmio' = RawAccess(v, "read", l, offset, size, 0, 0, "panic")
            /\ PanicInAccess(v)
       ELSE /\ mmio' = RawAccess(v, "read", l, offset, size, 0, ReadValue(v, l), "Ok")
            /\ AccessReturns(v, wlog[v])
            /\ UNCHANGED << regVars, prog_since >>

\* accesses by offset and size: driver_feature, queue_select with its size and
\* with a wrong one, queue_enable, queue_notify_data, queue_reset, the ISR
\* word, the doorbell of queue 0 and the word after it
RawAccessInputs == {<< 12, 4 >>, << 22, 2 >>, << 22, 4 >>, << 28, 2 >>,
                    << 56, 2 >>, << 58, 2 >>,
                    << OFFSET_ISR_STATUS, 4 >>, << OFFSET_QUEUE_NOTIFY, 4 >>,
                    << OFFSET_QUEUE_NOTIFY + 4, 4 >>}
RawValInputs == {1}

RawWriteStep ==
    /\ n_writes < MaxWrites - 1
    /\ \E a \in RawAccessInputs, val \in RawValInputs : WriteAt(1, a[1], a[2], val)
    /\ n_writes' = n_writes + 1
    /\ call' = NoCall
    /\ UNCHANGED << n_kicks, msix_entries, irq_log, offloaded >>

RawReadStep ==
    /\ \E a \in RawAccessInputs : ReadAt(1, a[1], a[2])
    /\ call' = NoCall
    /\ UNCHANGED << n_writes, n_kicks, msix_entries, irq_log, offloaded >>

RegWriteStep ==
    /\ n_writes < MaxWrites - 1
    /\ RegWrite(1)
    /\ n_writes' = n_writes + 1
    /\ call' = NoCall
    /\ UNCHANGED << n_kicks, msix_entries, irq_log, offloaded >>

\* the vCPU enters an access that begins with the load of a select
RegLoadStep ==
    /\ LoadQueueSel(1) \/ LoadDriverFeatureSel(1)
    /\ mmio' = NoAccess
    /\ call' = NoCall
    /\ UNCHANGED << n_writes, n_kicks, msix_entries, irq_log, offloaded >>

RegReadStep ==
    /\ RegRead(1)
    /\ call' = NoCall
    /\ UNCHANGED << n_writes, n_kicks, msix_entries, irq_log, offloaded >>

\* a second vCPU writes the selects, between the first one's load of a select
\* and the access that follows it as at any other time
RegSelectStep ==
    /\ n_writes < MaxWrites - 1
    /\ \/ \E val \in RegSelectInputs :
            /\ WriteDriverFeatureSelect(2, val)
            /\ mmio' = Access(2, "write", "driver_feature_select", "none", "none", val, 0)
       \/ \E val \in RegQueueSelInputs :
            /\ WriteQueueSelect(2, val)
            /\ mmio' = Access(2, "write", "queue_select", "none", "none", val, 0)
    /\ n_writes' = n_writes + 1
    /\ call' = NoCall
    /\ UNCHANGED << n_kicks, msix_entries, irq_log, offloaded >>

\* The register file read back: one vCPU writing and reading the registers,
\* MaxWrites accesses in all when the last one is a read, and a second vCPU
\* writing the selects.
NextRegs ==
    \/ RegLoadStep
    \/ RegSelectStep
    \/ RegWriteStep
    \/ RegReadStep
    \/ RawWriteStep
    \/ RawReadStep

SpecRegs == Init /\ [][NextRegs]_vars

\* The register file: one vCPU writing every register, MaxWrites writes in
\* all, and the worker thread consuming the events the writes post.
MmioStatusInputs == {0, 1, 3, 11, 15}
MmioFeatureInputs == {0, 3, 5}
MmioSelectInputs == {0, 1}
MmioQueueSelInputs == {1, NumQueues}
MmioAddrInputs == {4096}

MmioWrite(v) ==
    \/ \E val \in MmioStatusInputs : WriteDeviceStatus(v, val)
    \/ \E val \in MmioSelectInputs : WriteDeviceFeatureSelect(v, val)
    \/ \E val \in MmioSelectInputs : WriteDriverFeatureSelect(v, val)
    \/ \E val \in MmioFeatureInputs : WriteDriverFeature(v, val)
    \/ \E val \in VectorInputs : WriteConfigMsixVector(v, val)
    \/ \E val \in MmioQueueSelInputs : WriteQueueSelect(v, val)
    \/ \E val \in RegSizeInputs : WriteQueueSize(v, val)
    \/ \E val \in VectorInputs : WriteQueueMsixVector(v, val)
    \/ \E val \in RegEnableInputs : WriteQueueEnable(v, val)
    \/ \E f \in {"desc", "driver", "device"}, h \in {"lo", "hi"}, val \in MmioAddrInputs :
         WriteQueueAddr(v, f, h, val)

NextMmio ==
    \/ (LoadQueueSel(1) \/ LoadDriverFeatureSel(1)) /\ call' = NoCall
       /\ n_writes < MaxWrites /\ UNCHANGED << n_writes, n_kicks, sideVars >>
    \/ MmioWrite(1) /\ call' = NoCall /\ n_writes < MaxWrites /\ n_writes' = n_writes + 1
       /\ UNCHANGED << n_kicks, sideVars >>
    \/ StatusWriteSteps(1) /\ NoDeviceCall
    \/ WorkerStep
    \/ PollErrStep

SpecMmio == Init /\ [][NextMmio]_vars

\* Feature negotiation before DRIVER_OK: one vCPU writing the high half of
\* driver_feature and device_status and firing the kick fds, and the worker.
NegSelectInputs == {1}
NegFeatureInputs == {0, RING_PACKED_HI}
NegStatusInputs == {15}

GuestFeatureStep ==
    /\ \/ \E val \in NegSelectInputs : WriteDriverFeatureSelect(1, val)
       \/ LoadDriverFeatureSel(1)
       \/ \E val \in NegFeatureInputs : WriteDriverFeature(1, val)
    /\ NoDeviceCall

GuestDriverOkStep ==
    /\ \/ \E val \in NegStatusInputs : WriteDeviceStatus(1, val)
       \/ StatusWriteSteps(1)
    /\ NoDeviceCall

NextNeg ==
    \/ GuestFeatureStep
    \/ GuestDriverOkStep
    \/ KickStep
    \/ WorkerStep
    \/ PollErrStep

SpecNeg == Init /\ [][NextNeg]_vars

\* ------------------------------------ two vCPUs writing the registers
\* The register file is shared by the vCPU threads (write takes &self): a
\* second vCPU may be inside a device_status write while the first one is
\* between its swap and its send.
\* the register the second vCPU reads back, by offset and size: queue_enable
RaceReadInputs == {<< 28, 2 >>}
SecondVcpuStep == (GuestStatus(2) \/ StatusWriteSteps(2)) /\ NoDeviceCall

\* the second vCPU programs driver_feature, the vectors and the enabled flags
\* and reads queue_enable back
SecondVcpuLoadStep ==
    /\ LoadQueueSel(2) \/ LoadDriverFeatureSel(2)
    /\ mmio' = NoAccess
    /\ call' = NoCall
    /\ UNCHANGED << n_writes, n_kicks, msix_entries, irq_log, offloaded >>

SecondVcpuReadStep ==
    /\ \E a \in RaceReadInputs : ReadAt(2, a[1], a[2])
    /\ call' = NoCall
    /\ UNCHANGED << n_writes, n_kicks, msix_entries, irq_log, offloaded >>

SecondVcpuWriteStep ==
    /\ n_writes < MaxSmpWrites
    /\ \/ \E val \in RawValInputs : WriteDriverFeature(2, val)
       \/ \E val \in VectorInputs : WriteConfigMsixVector(2, val)
       \/ \E val \in VectorInputs : WriteQueueMsixVector(2, val)
       \/ \E val \in RegEnableInputs : WriteQueueEnable(2, val)
    /\ n_writes' = n_writes + 1
    /\ call' = NoCall
    /\ UNCHANGED << n_kicks, sideVars >>

\* the first vCPU writes the selects beside its device_status writes
FirstVcpuSelectStep ==
    /\ n_writes < MaxSmpWrites
    /\ \/ \E val \in MmioQueueSelInputs : WriteQueueSelect(1, val)
       \/ \E val \in NegSelectInputs : WriteDriverFeatureSelect(1, val)
    /\ n_writes' = n_writes + 1
    /\ call' = NoCall
    /\ UNCHANGED << n_kicks, sideVars >>

NextSmp ==
    \/ GuestStep
    \/ SecondVcpuStep
    \/ WorkerStep
    \/ PollErrStep

\* One vCPU driving device_status and the selects, a second one programming
\* driver_feature, the vectors and the enabled flags and reading queue_enable,
\* and the worker thread: the second vCPU's accesses fall between the stores
\* of the first one's reset() and before its return, the first one's writes
\* of a select and of device_status between the second one's load of the
\* select and the access that follows it. MaxSmpWrites bounds the writes to
\* registers other than device_status.
NextRace ==
    \/ GuestStep
    \/ FirstVcpuSelectStep
    \/ SecondVcpuLoadStep
    \/ SecondVcpuWriteStep
    \/ SecondVcpuReadStep
    \/ WorkerStep
    \/ PollErrStep

SpecRace == Init /\ [][NextRace]_vars

SpecSmp == Init /\ [][NextSmp]_vars

\* ------------------------------------------------------------------ claims

\* the Start events among the events a write enqueued
StartsOf(enq) == SelectSeq(enq, LAMBDA e : e.type = "Start")

\* what the guest reads back: every vector NO_VECTOR, every queue disabled
\* (a queue_sel past the last queue included)
ReadBackIsReset ==
    /\ ReadConfigMsixVector(msix_vector) = VIRTIO_MSI_NO_VECTOR
    /\ \A q_sel \in 0 .. NumQueues :
         /\ ReadQueueMsixVector(msix_vector, q_sel) = VIRTIO_MSI_NO_VECTOR
         /\ ReadQueueEnable(queue_regs, q_sel) = 0

\* C1, as stated: every device_status write that raises DRIVER_OK has, when it
\* returns, enqueued exactly one Start event, carrying the driver_feature of
\* the time of the write; a write that does not raise it enqueued no Start.
C1_AsStated ==
    wlog[1].done =>
        IF wlog[1].rise
        THEN /\ Len(wlog[1].enq) = 1
             /\ wlog[1].enq[1].type = "Start"
             /\ wlog[1].enq[1].feature = wlog[1].df
        ELSE StartsOf(wlog[1].enq) = << >>

\* C1, amended: a device_status write that raises DRIVER_OK while the worker
\* thread has not finished (the channel's Receiver exists at the send) enqueues
\* exactly one Start event, carrying the driver_feature of the time of the
\* write; once the worker thread has finished the send fails and the write
\* enqueues nothing; no other register write enqueues a Start.
C1_StartOnRisingEdge ==
    wlog[1].done =>
        IF wlog[1].rise /\ wlog[1].alive
        THEN /\ Len(wlog[1].enq) = 1
             /\ wlog[1].enq[1].type = "Start"
             /\ wlog[1].enq[1].feature = wlog[1].df
        ELSE wlog[1].enq = << >> \/ (wlog[1].fall /\ wlog[1].enq = << ResetEv >>)

\* a rising write that returned after enqueuing its Start, with a driver_feature
\* the guest had written before
C1_Witness ==
    /\ wlog[1].done /\ wlog[1].rise /\ wlog[1].alive
    /\ wlog[1].df # Zero64
    /\ Len(wlog[1].enq) = 1

\* the step is the return of a device_status write of vCPU 1 that cleared
\* DRIVER_OK and whose send found the worker's Receiver
ReturnsFromFall ==
    /\ ~wlog[1].done /\ wlog'[1].done
    /\ wlog'[1].fall /\ wlog'[1].alive

\* C2: a device_status write that clears DRIVER_OK has, when it returns,
\* enqueued exactly one Reset event, and every MSI-X vector then reads back as
\* NO_VECTOR and every queue's enabled flag as 0. Stated for the writes made
\* while the worker thread lives; without it the send fails as in C1 and no
\* Reset is enqueued.
C2_ResetOnFallingEdge ==
    [][ReturnsFromFall =>
         /\ wlog'[1].enq = << ResetEv >>
         /\ ReadBackIsReset']_vars

\* the worker is blocked in a poll: nothing is ready
BlockedInPoll == wpc \in {"ws_poll", "poll"} /\ ready = {}

\* the worker takes a Reset event off the wake channel in this step
ObservesReset ==
    /\ wpc \in {"ws_recv", "drain0", "drain"}
    /\ chan # << >>
    /\ Head(chan).type = "Reset"
    /\ wpc' # wpc \/ chan' = Tail(chan)

\* C3: once the destructor has sent Shutdown and signalled the waker, the
\* worker thread eventually terminates and the destructor's join returns,
\* whatever the worker was doing and whatever the wake channel held.
C3_ShutdownTerminates == (dpc = "join") ~> (wpc = "done" /\ dpc = "done")

\* C4: with no Shutdown sent and the guest outside any device_status write, no
\* Start event is left in the wake channel while the worker blocks in poll.
C4_NoStartLeftBehind ==
    (dpc = "idle" /\ vpc[1] = "idle" /\ BlockedInPoll) => ~HasType(chan, "Start")

\* C5: whenever the worker takes a Reset off the wake channel after an
\* activation (the Reset already queued when the activation completed
\* included), its next step is device.reset().
C5_ResetAfterStartResetsDevice ==
    [][(ObservesReset /\ wpc \in {"drain0", "drain"}) => wpc' = "reset"]_vars

\* C6: whenever the worker takes a Reset off the wake channel, the only Reset
\* in it, and the guest has programmed no vector since that Reset was sent,
\* every MSI-X vector is NO_VECTOR and every queue's enabled flag is false.
C6_ResetObservedAfterRegistersCleared ==
    [][(/\ ObservesReset
        /\ Len(SelectSeq(chan, LAMBDA e : e.type = "Reset")) = 1
        /\ ~prog_since)
       => (/\ msix_vector = ResetVectors(msix_vector)
           /\ queue_regs = ResetEnabled(queue_regs))]_vars

\* C7: at rest (the guest outside any write, no PCI reset or drop under way,
\* the wake channel empty and the worker blocked in poll), if the status
\* register is 0 the worker is in the pre-start wait and the device is not
\* active.
C7_StatusZeroMeansWaitStart ==
    (/\ reg.status = 0
     /\ \A v \in VCPUS : vpc[v] = "idle"
     /\ ppc = "idle" /\ dpc = "idle"
     /\ chan = << >> /\ BlockedInPoll)
    => (wpc \in WaitStart /\ ~dev_active)

\* C8: the worker thread terminates only after consuming Shutdown or on a fatal
\* error (an Err from the device, a panic); a Reset received in WaitStart does
\* not end it.
C8_TerminatesOnlyOnShutdownOrError ==
    wpc = "done" => exit_cause \in {"Shutdown", "error", "panic"}

\* C9: handle_queue and handle_event are called only on an activated device,
\* and a kick fired after the n-th write raising DRIVER_OK had returned is
\* dispatched to handle_queue only once the activation for that write (or a
\* later one) was made.
C9_DeviceCallsOnlyWhileRunning ==
    /\ call.op \in {"handle_queue", "handle_event"} => dev_active
    /\ (call.op = "handle_queue" /\ call.path = "kick") => act_id >= call.after

\* C10, as stated: when a wake-up of the Running loop ends, however it ends,
\* handle_queue(i) was called from the kick path exactly once for every queue i
\* whose kick token the poll reported, and not at all for any other queue.
C10_AsStated ==
    [][(wpc \in {"dispatch", "drain"} /\ wpc' \notin {"dispatch", "drain"})
       => \A i \in Queues :
            (IF wpc' = "done" THEN hq_count'[i] ELSE hq_count[i])
              = (IF reported[i].hit THEN 1 ELSE 0)]_vars

\* C10, amended: within a wake-up of the Running loop, handle_queue(i) has been
\* called from the kick path exactly once for every reported kick token already
\* taken from the batch, however many kicks were fired on the fd, and not at
\* all for a token still in the batch or for a queue whose fd did not fire; the
\* tokens still in the batch when the worker leaves the loop (Reset, Shutdown,
\* an error) get no call.
C10_OneCallPerReportedToken ==
    wpc \in {"dispatch", "drain"} =>
        \A i \in Queues :
            hq_count[i] = (IF reported[i].hit /\ KickToken(i) \notin batch THEN 1 ELSE 0)

\* a wake-up handled to its end: two kicks coalesced on one fd gave one call,
\* a queue whose fd did not fire gave none
C10_Witness ==
    /\ wpc = "dispatch" /\ batch = {}
    /\ \E i \in Queues :
         reported[i].hit /\ reported[i].kicks >= 2 /\ hq_count[i] = 1
    /\ \E j \in Queues : ~reported[j].hit /\ hq_count[j] = 0

\* C11: a step in which the worker calls handle_queue or handle_event leaves
\* the worker in the Running loop, whatever the call returned: an error is
\* logged and does not end the worker.
C11_HandlerErrorKeepsWorkerRunning ==
    call.op \in {"handle_queue", "handle_event"} => wpc \in Running

\* the vector names an unmasked entry of the MSI-X table
Deliverable(vector) ==
    /\ vector # VIRTIO_MSI_NO_VECTOR
    /\ vector \in 0 .. (TableEntries - 1)
    /\ ~msix_entries[vector].masked

\* the one MSI the entry describes: address (addr_hi << 32) | addr_lo, its data
MsiOfEntry(vector) ==
    [addr |-> [lo |-> msix_entries[vector].addr_lo, hi |-> msix_entries[vector].addr_hi],
     data |-> msix_entries[vector].data]

\* C12 as stated, the vector and the entry taken as the registers hold them:
\* a call made while its vector names an unmasked entry, and returning while
\* its vector names an unmasked entry, submits an MSI.
C12_AsStated ==
    [][LET now == IF irq_log.op = "config_irq" THEN msix_vector.config
                  ELSE msix_vector.queues[irq_log.idx]
       IN (IrqSend /\ irq_log.snap # << >> /\ Deliverable(now))
          => irq_log'.sent # << >>]_vars

\* C12: every queue_irq(i) call with i < num_queues that loaded a vector
\* other than NO_VECTOR goes on to read the entry the vector names, and if
\* that entry is in the MSI-X table and unmasked when the call reads it, the
\* call submits exactly one MSI, with the address (addr_hi << 32) | addr_lo
\* and the data of that entry; every config_irq() call does the same with the
\* config vector.
C12_IrqSubmitsEntry ==
    [][/\ (ConfigIrq \/ \E i \in Queues : QueueIrq(i))
          /\ irq_log'.vector # VIRTIO_MSI_NO_VECTOR
            => irq_log'.pc = "send"
       /\ IrqSend /\ Deliverable(irq_log.vector)
            => /\ irq_log'.sent = << MsiOfEntry(irq_log.vector) >>
               /\ irq_log'.pc = "idle"]_vars

\* queue_irq(1) with queue 1's vector naming the entry addr = 0x1000,
\* data = 0x42, unmasked, has submitted (0x1000, 0x42)
C12_Witness ==
    /\ irq_log.op = "queue_irq" /\ irq_log.idx = 1 /\ irq_log.vector = 1
    /\ irq_log.pc = "idle"
    /\ msix_entries[1] = MsixEntry(4096, 0, 66, FALSE)
    /\ irq_log.sent = << [addr |-> [lo |-> 4096, hi |-> 0], data |-> 66] >>

\* C13 as stated, the vector and the entry taken as the registers hold them:
\* a call made while its vector names no unmasked entry of the table, and
\* returning while its vector names none, submits nothing.
C13_AsStated ==
    [][LET now == IF irq_log.op = "config_irq" THEN msix_vector.config
                  ELSE msix_vector.queues[irq_log.idx]
       IN (IrqSend /\ irq_log.snap = << >> /\ ~Deliverable(now))
          => irq_log'.sent = << >>]_vars

\* C13: config_irq() and queue_irq(i) return without an MSI when the vector
\* they load is NO_VECTOR or when i >= num_queues, and, with the vector they
\* loaded, when it lies outside the MSI-X table or the entry it names is
\* masked when the call reads it.
C13_IrqDropped ==
    [][/\ ConfigIrq /\ msix_vector.config = VIRTIO_MSI_NO_VECTOR
            => irq_log'.sent = << >> /\ irq_log'.pc = "idle"
       /\ \A i \in 0 .. NumQueues :
            QueueIrq(i) /\ (i \notin Queues \/ msix_vector.queues[i] = VIRTIO_MSI_NO_VECTOR)
              => irq_log'.sent = << >> /\ irq_log'.pc = "idle"
       /\ IrqSend /\ ~Deliverable(irq_log.vector)
            => irq_log'.sent = << >> /\ irq_log'.pc = "idle"]_vars

\* queue_irq(1) with queue 1's vector naming a masked entry has submitted
\* nothing
C13_Witness ==
    /\ irq_log.op = "queue_irq" /\ irq_log.idx = 1 /\ irq_log.vector = 1
    /\ irq_log.pc = "idle" /\ irq_log.snap = << >>
    /\ msix_entries[1] = MsixEntry(4096, 0, 66, TRUE)
    /\ irq_log.sent = << >>

\* the step is the return of a write access to the named register
IsWrite(name) == mmio'.kind = "write" /\ mmio'.reg = name

\* the step is a write access to one half of one address register
IsAddrWrite(field, half) ==
    IsWrite("queue_addr") /\ mmio'.field = field /\ mmio'.half = half

\* C14: a write of X to driver_feature with selector 0 (of Y with selector 1)
\* makes the low (high) half of the stored driver_feature X (Y) and leaves the
\* other half as it was, a read with the same selector then returns the value
\* written, and no other access changes driver_feature: after X with selector
\* 0 and Y with selector 1 the stored value is (Y << 32) | X and reads return
\* X and Y.
C14_DriverFeatureRoundTrip ==
    [][IF IsWrite("driver_feature")
       THEN vst[1].f_sel \in {0, 1} =>
              /\ ReadDriverFeature(vst[1].f_sel, reg'.driver_feature) = mmio'.val
              /\ reg'.driver_feature =
                    (IF vst[1].f_sel = 0
                     THEN [lo |-> mmio'.val, hi |-> reg.driver_feature.hi]
                     ELSE [lo |-> reg.driver_feature.lo, hi |-> mmio'.val])
       ELSE reg'.driver_feature = reg.driver_feature]_vars

\* driver_feature read with selector 1 returns Y = 3 after X = 5 was written
\* with selector 0 and Y with selector 1; the stored value is (3 << 32) | 5
C14_Witness ==
    /\ mmio.kind = "read" /\ mmio.reg = "driver_feature"
    /\ reg.driver_feature_sel = 1
    /\ mmio.ret = 3
    /\ reg.driver_feature = [lo |-> 5, hi |-> 3]

\* C15: for every queue i, a write of queue_desc_lo with queue_select = i makes
\* a read of queue_desc_lo with queue_select = i return the value written, and
\* no other access (a write with another queue_select, a write to
\* queue_desc_hi, any other register) changes what that read returns.
C15_QueueDescLoRoundTrip ==
    [][\A i \in Queues :
         IF IsAddrWrite("desc", "lo") /\ mmio'.q_sel = i
         THEN ReadQueueAddr(queue_regs', i, "desc", "lo") = mmio'.val
         ELSE ReadQueueAddr(queue_regs', i, "desc", "lo")
                = ReadQueueAddr(queue_regs, i, "desc", "lo")]_vars

\* queue_desc_lo read with queue_select = 1 returns the 0x1000 written to it,
\* with 0x2000 written to queue_desc_hi of the same queue and queue 0 untouched
C15_Witness ==
    /\ mmio.kind = "read" /\ mmio.reg = "queue_addr"
    /\ mmio.field = "desc" /\ mmio.half = "lo"
    /\ mmio.q_sel = 1 /\ mmio.ret = 4096
    /\ queue_regs[1].desc = [lo |-> 4096, hi |-> 8192]
    /\ queue_regs[0].desc = Zero64

\* C16: for every queue i, a write of queue_driver_lo (queue_device_lo) with
\* queue_select = i makes a read of the same register with queue_select = i
\* return the value written, and no other access, a write to the matching _hi
\* register included, changes what that read returns.
C16_QueueDriverDeviceLoRoundTrip ==
    [][\A i \in Queues, f \in {"driver", "device"} :
         IF IsAddrWrite(f, "lo") /\ mmio'.q_sel = i
         THEN ReadQueueAddr(queue_regs', i, f, "lo") = mmio'.val
         ELSE ReadQueueAddr(queue_regs', i, f, "lo")
                = ReadQueueAddr(queue_regs, i, f, "lo")]_vars

\* C17: a read of device_feature (driver_feature) returns the low half of the
\* value when the selector is 0, the high half when it is 1, and 0 for every
\* other selector.
C17_FeatureReadBySelector ==
    LET SelectedHalf(feature, sel) ==
            IF sel = 0 THEN feature.lo ELSE IF sel = 1 THEN feature.hi ELSE 0
    IN /\ (mmio.kind = "read" /\ mmio.reg = "device_feature")
            => mmio.ret = SelectedHalf(reg.device_feature, reg.device_feature_sel)
       /\ (mmio.kind = "read" /\ mmio.reg = "driver_feature")
            => mmio.ret = SelectedHalf(reg.driver_feature, reg.driver_feature_sel)

\* bit 33 of a 64-bit value (bit 1 of its high half) cleared, by arithmetic
WithoutBit33(f) == [lo |-> f.lo, hi |-> f.hi - 2 * ((f.hi \div 2) % 2)]

\* C18: the feature value passed to device.activate is the feature of the
\* Start event the worker received with the ACCESS_PLATFORM bit (bit 33)
\* cleared and every other bit unchanged.
C18_ActivateFeature ==
    call.op = "activate" => call.feature = WithoutBit33(wev.feature)

\* activate called for a Start carrying 0x0000_0003_0000_0005 (0x5 written
\* with selector 0, 0x3 with selector 1) with 0x0000_0001_0000_0005
C18_Witness ==
    /\ call.op = "activate"
    /\ wev.feature = [lo |-> 5, hi |-> 3]
    /\ call.feature = [lo |-> 5, hi |-> 1]

\* C19: device.activate never receives a feature bit that is not set in the
\* advertised device_feature, whatever the guest wrote to driver_feature.
C19_ActivateFeatureWithinDeviceFeature ==
    call.op = "activate" =>
        /\ BitAnd(call.feature.lo, reg.device_feature.lo) = call.feature.lo
        /\ BitAnd(call.feature.hi, reg.device_feature.hi) = call.feature.hi

\* the per-queue registers of the common configuration
QueueRegisters == {"queue_size", "queue_msix_vector", "queue_enable", "queue_addr"}

\* C20: with queue_select >= num_queues a read of queue_size, queue_enable or
\* an address half returns 0 and a read of queue_msix_vector returns
\* NO_VECTOR; a write to queue_size, queue_enable, queue_msix_vector or an
\* address half changes no queue's configuration and no MSI-X vector slot.
C20_OutOfRangeQueueSelect ==
    [][(mmio'.reg \in QueueRegisters /\ mmio'.q_sel >= NumQueues) =>
         /\ mmio'.kind = "read" =>
              mmio'.ret = IF mmio'.reg = "queue_msix_vector"
                          THEN VIRTIO_MSI_NO_VECTOR ELSE 0
         /\ mmio'.kind = "write" =>
              queue_regs' = queue_regs /\ msix_vector' = msix_vector]_vars

\* queue_desc_lo written with 0x2000 while queue_select = num_queues, after
\* queue 0 had been given 0x1000: queue 0 still holds 0x1000
C20_Witness ==
    /\ mmio.kind = "write" /\ mmio.reg = "queue_addr"
    /\ mmio.field = "desc" /\ mmio.half = "lo" /\ mmio.val = 8192
    /\ mmio.q_sel = NumQueues
    /\ queue_regs[0].desc = [lo |-> 4096, hi |-> 0]

\* the access the step makes matches no register: no field of the common
\* configuration has its offset and size, and a write is not to the notify area
MatchesNoRegister ==
    /\ mmio'.kind \in {"read", "write"}
    /\ ~\E l \in Layout : l.offset = mmio'.offset /\ l.size = mmio'.size
    /\ mmio'.kind = "write" =>
         mmio'.offset \notin OFFSET_QUEUE_NOTIFY .. (OFFSET_QUEUE_NOTIFY + 4 * NumQueues - 1)

\* C21: an access to an offset/size pair that matches no register returns Ok;
\* a read returns 0; a write posts no event and leaves status, the feature
\* selectors, driver_feature, queue_select, every queue's configuration and
\* every MSI-X vector slot unchanged.
C21_UnmatchedAccessIsNoOp ==
    [][MatchesNoRegister =>
         /\ mmio'.res = "Ok"
         /\ mmio'.kind = "read" => mmio'.ret = 0
         /\ reg' = reg /\ queue_regs' = queue_regs /\ msix_vector' = msix_vector
         /\ chan' = chan /\ ready' = ready]_vars

\* a 4-byte write of 1 at the offset of the 2-byte queue_select returned Ok and
\* queue_select is still 0
C21_Witness ==
    /\ mmio.kind = "write" /\ mmio.offset = 22 /\ mmio.size = 4 /\ mmio.val = 1
    /\ mmio.res = "Ok"
    /\ reg.queue_sel = 0

\* bit 34 of a 64-bit value (bit 2 of its high half) is set, by arithmetic
HasBit34(f) == (f.hi \div 4) % 2 = 1

\* C22: once the worker has received a Start whose feature has the packed-ring
\* bit, it is either about to activate or terminated: no queue set is
\* installed for that Start and no handle_queue or handle_event is called,
\* whatever kick arrives afterwards.
C22_PackedRingActivationFails ==
    HasBit34(wev.feature) =>
        /\ wpc \in {"activate", "done"}
        /\ \A k \in DOMAIN queues : queues[k].feature # wev.feature
        /\ call.op \notin {"handle_queue", "handle_event"}

\* the worker terminated in the activation of a packed-ring Start, and a kick
\* of queue 0 fired after that is pending with nobody to handle it
C22_Witness ==
    /\ HasBit34(wev.feature)
    /\ wpc = "done" /\ exit_cause = "panic"
    /\ queues = << >>
    /\ KickToken(0) \in ready

\* C23: the kick fd of queue i is registered in the worker's poll set exactly
\* when offload_ioeventfd(i, fd) returned false, never both, and neither the
\* registration nor the offload changes after construction, across any Start
\* and Reset.
C23_KickFdRegisteredOrOffloaded ==
    /\ [](\A i \in Queues : (i \in poll_set) <=> (i \notin offloaded))
    /\ [][poll_set' = poll_set /\ offloaded' = offloaded]_vars

\* after a Start and the device.reset that followed it, the offloaded last
\* queue is still the only one outside the poll set
C23_Witness ==
    /\ call.op = "reset" /\ act_id = 1
    /\ offloaded = {NumQueues - 1}
    /\ poll_set = Queues \ {NumQueues - 1}

\* C24: every register read and write returns Ok to the guest; none blocks
\* or fails, whatever the register and whatever the state of the worker.
C24_MmioAccessReturnsOk ==
    mmio.kind \in {"read", "write"} => mmio.res = "Ok"

\* C25: a write to the doorbell of queue i in the notify area returns Ok,
\* enqueues exactly one Notify{q_index = i} and wakes the worker.
C25_NotifyWriteIsKick ==
    [][\A i \in Queues :
         (mmio'.kind = "write" /\ mmio'.offset = OFFSET_QUEUE_NOTIFY + 4 * i) =>
            /\ mmio'.res = "Ok"
            /\ chan' = Append(chan, NotifyEv(i))
            /\ WakerToken \in ready']_vars

\* the DRIVER_OK bit (bit 2) of a status byte, by arithmetic
Bit2(status) == (status \div 4) % 2

\* C26: a device_status write that does not change the DRIVER_OK bit changes
\* only the status byte and is complete at once: no event is posted, the
\* MSI-X vectors, the queues and every other register keep their values.
\* Hence when the first rising edge is the last write made (as in the
\* bring-up 1, 3, 11, 15), exactly one event has been posted, the Start with
\* the driver_feature of that time, which is either still queued or the one
\* the worker received.
C26_StatusWriteWithoutEdge ==
    /\ [][\A val \in MmioStatusInputs :
            (WriteDeviceStatus(1, val) /\ Bit2(val) = Bit2(reg.status)) =>
               /\ reg' = [reg EXCEPT !.status = val]
               /\ queue_regs' = queue_regs /\ msix_vector' = msix_vector
               /\ chan' = chan /\ ready' = ready
               /\ vpc'[1] = "idle"]_vars
    /\ []((wlog[1].rise /\ wlog[1].done /\ n_starts = 1 /\ rx_alive) =>
            \/ chan = << StartEv(reg.driver_feature, 1) >> /\ wev = NoEvent
            \/ chan = << >> /\ wev = StartEv(reg.driver_feature, 1))

\* the fourth write, 15 over 11, is complete; with driver_feature never
\* written the one event queued is Start{feature = 0}
C26_Witness ==
    /\ n_writes = 4 /\ reg.status = 15 /\ vst[1].old = 11
    /\ wlog[1].done /\ n_starts = 1
    /\ reg.driver_feature = Zero64
    /\ chan = << StartEv(Zero64, 1) >>

\* C27: whenever the worker is in WaitStart, initially and after every
\* completed reset, its active virtqueue set is empty.
C27_NoQueuesInWaitStart ==
    wpc \in WaitStart => queues = << >>

\* the worker, Running, takes a Start event off the wake channel
StartTakenWhileRunning ==
    /\ wpc \in Running
    /\ chan # << >> /\ Head(chan).type = "Start"
    /\ chan' = Tail(chan) /\ rx_alive'

\* C28: a Start taken off the channel while Running is ignored: no activate
\* call, the queue set and the Start in force are kept and the worker stays
\* Running. Over any execution activate is only called with the device not
\* active and reset only with the device active, so the two calls alternate,
\* beginning with activate.
C28_StartIgnoredWhileRunning ==
    [][/\ StartTakenWhileRunning =>
            /\ call'.op = "none"
            /\ queues' = queues /\ wev' = wev /\ act_id' = act_id
            /\ wpc' \in Running
       /\ call'.op = "activate" => ~dev_active
       /\ call'.op = "reset" => dev_active /\ ~dev_active']_vars

\* the second Start was posted and is gone from the channel, while the worker
\* still runs the activation made for the first
C28_Witness ==
    /\ n_starts = 2 /\ vpc[1] = "idle"
    /\ chan = << >>
    /\ wpc = "poll" /\ act_id = 1 /\ wev.id = 1 /\ dev_active

\* the step is the event part of a device_status write that cleared
\* (fall) or set (not fall) the DRIVER_OK bit
EdgeStep(fall) ==
    /\ vpc[1] = "event" /\ vst'[1] # vst[1]
    /\ Bit2(vst[1].new) = (IF fall THEN 0 ELSE 1)

\* C29: the transport reset of a falling edge of DRIVER_OK keeps
\* driver_feature, both feature selectors, queue_select and the status just
\* written, and of every queue everything but the enabled flag; the Start of
\* a rising edge carries the driver_feature stored at that time, so the
\* value written before a reset unless the guest rewrote it.
C29_TransportResetFrame ==
    [][/\ EdgeStep(TRUE) =>
            /\ reg' = reg
            /\ \A i \in Queues :
                 [queue_regs'[i] EXCEPT !.enabled = queue_regs[i].enabled] = queue_regs[i]
       /\ EdgeStep(FALSE) => vst'[1].event.feature = reg.driver_feature]_vars

\* driver_feature = 0x5 written once, then DRIVER_OK set, cleared and set
\* again: the second Start carries 0x5 as the first, still queued, does
C29_Witness ==
    /\ n_writes = 4 /\ n_starts = 2
    /\ chan = << StartEv([lo |-> 5, hi |-> 0], 1), ResetEv >>
    /\ vst[1].event = StartEv([lo |-> 5, hi |-> 0], 2)

\* C30: when the device is dropped after its worker thread has terminated,
\* the shutdown ends in its first step: nothing is sent or signalled and
\* the destructor does not wait in join; once a shutdown has ended, it stays
\* ended, and a further call puts no Shutdown into the channel and signals
\* nothing.
C30_DropAfterWorkerExit ==
    [][/\ (dpc = "idle" /\ dpc' # "idle" /\ wpc = "done") =>
            /\ dpc' = "failed"
            /\ chan' = chan /\ ready' = ready
       /\ dpc \in {"done", "failed"} =>
            /\ dpc' = dpc
            /\ ~HasType(chan, "Shutdown") => ~HasType(chan', "Shutdown")
            /\ ShutdownAgain => (ready' = ready /\ wpc' = wpc)]_vars

\* the worker ended on a handler error and the device was dropped afterwards:
\* the destructor is through, with nothing sent
C30_Witness ==
    /\ dpc = "failed"
    /\ wpc = "done" /\ exit_cause = "error"
    /\ chan = << >> /\ ready = {}

\* C31: when two vCPUs write device_status concurrently, the Start and Reset
\* events enter the wake channel in the order of the DRIVER_OK transitions
\* they belong to. The swap is atomic, so of two writes that both changed
\* DRIVER_OK and have not sent yet, the earlier one is the one whose new
\* status the other one's swap returned as old; the claim is that the later
\* write never sends its event while the earlier one has not sent.
C31_EventsInTransitionOrder ==
    [][\A v \in VCPUS : \A w \in VCPUS \ {v} :
         (/\ vpc[v] = "send" /\ vpc'[v] = "wake"
          /\ chan' = Append(chan, vst[v].event))
         => ~(/\ vpc[w] \in {"event", "send"}
              /\ vst[v].old = vst[w].new
              /\ vst[v].new = reg.status)]_vars

====
